---- MODULE Spec2Model ----
(***************************************************************************)
(* State-machine model of the DuckDB DNS extension (src/src/lib.rs):       *)
(* the shared resolver state GLOBAL_DNS_STATE with its three ArcSwap       *)
(* fields, the three batch scalar functions (reverse_dns_lookup,           *)
(* dns_lookup, dns_lookup_all), the three administrative scalar functions  *)
(* (set_dns_config, set_dns_concurrency_limit, set_dns_cache_size) and the *)
(* corey table function.                                                   *)
(*                                                                         *)
(* Text is a sequence of one-character strings, so that trim, case         *)
(* conversion and parsing are computed.  Status messages are sequences of  *)
(* literal fragments followed by the formatted argument.                   *)
(* Option<T> is a sequence of length at most one.                          *)
(***************************************************************************)
EXTENDS Integers, Sequences, FiniteSets, TLC

\* ------------------------------------------------------------------ bounds
\* Number of batch calls (reverse_dns_lookup / dns_lookup / dns_lookup_all)
MaxBatches == 2
\* Rows per batch call
MaxRows == 2
\* Rows of all batch calls together
MaxTasks == 3
\* Length of a record-type text
MaxText == 4
\* Number of administrative calls
MaxAdmins == 2
\* Number of corey() binds
MaxBinds == 1

\* ------------------------------------------------------- program constants
DefaultCacheSize == 4096
DefaultConcurrency == 50
\* rows per chunk of the corey scan (line 1112)
VectorSize == 2048
\* width of usize in the model (the `as usize` casts of lines 900 and 981)
UsizeBits == 16

\* ------------------------------------------------------------------- text
None == <<>>
Some(x) == <<x>>
IsSome(o) == Len(o) = 1
Unwrap(o) == o[1]

Whitespace == {" ", "\t"}

RECURSIVE TrimStart(_)
TrimStart(s) ==
    IF s = <<>> THEN s
    ELSE IF Head(s) \in Whitespace THEN TrimStart(Tail(s)) ELSE s

RECURSIVE TrimEnd(_)
TrimEnd(s) ==
    IF s = <<>> THEN s
    ELSE IF s[Len(s)] \in Whitespace THEN TrimEnd(SubSeq(s, 1, Len(s) - 1)) ELSE s

\* str::trim
Trim(s) == TrimEnd(TrimStart(s))

LowerLetters == <<"a","b","c","d","e","f","g","h","i","j","k","l","m",
                  "n","o","p","q","r","s","t","u","v","w","x","y","z">>
UpperLetters == <<"A","B","C","D","E","F","G","H","I","J","K","L","M",
                  "N","O","P","Q","R","S","T","U","V","W","X","Y","Z">>

UpperChar(c) ==
    IF \E k \in 1..26 : LowerLetters[k] = c
    THEN UpperLetters[CHOOSE k \in 1..26 : LowerLetters[k] = c]
    ELSE c

LowerChar(c) ==
    IF \E k \in 1..26 : UpperLetters[k] = c
    THEN LowerLetters[CHOOSE k \in 1..26 : UpperLetters[k] = c]
    ELSE c

\* str::to_uppercase / str::to_lowercase
ToUppercase(s) == [k \in 1..Len(s) |-> UpperChar(s[k])]
ToLowercase(s) == [k \in 1..Len(s) |-> LowerChar(s[k])]

\* str::trim_end_matches('.'): removes every trailing '.'
RECURSIVE TrimEndDots(_)
TrimEndDots(s) ==
    IF s = <<>> THEN s
    ELSE IF s[Len(s)] = "." THEN TrimEndDots(SubSeq(s, 1, Len(s) - 1)) ELSE s

\* a message contains a fragment sequence as a contiguous run
Contains(msg, frag) ==
    \E k \in 0..(Len(msg) - Len(frag)) : SubSeq(msg, k + 1, k + Len(frag)) = frag

Digits == <<"0","1","2","3","4","5","6","7","8","9">>
IsDigit(c) == \E k \in 1..10 : Digits[k] = c
DigitValue(c) == (CHOOSE k \in 1..10 : Digits[k] = c) - 1

RECURSIVE DecimalValue(_)
DecimalValue(s) ==
    IF s = <<>> THEN 0
    ELSE 10 * DecimalValue(SubSeq(s, 1, Len(s) - 1)) + DigitValue(s[Len(s)])

\* the dot-separated fields of a text
RECURSIVE SplitDots(_)
SplitDots(s) ==
    IF \E k \in 1..Len(s) : s[k] = "."
    THEN LET k == CHOOSE j \in 1..Len(s) :
                      s[j] = "." /\ \A m \in 1..(j - 1) : s[m] # "."
         IN  <<SubSeq(s, 1, k - 1)>> \o SplitDots(SubSeq(s, k + 1, Len(s)))
    ELSE <<s>>

\* one octet of Ipv4Addr::from_str: 1 to 3 digits, no leading zero, at most 255
IsOctet(f) ==
    /\ Len(f) \in 1..3
    /\ \A k \in 1..Len(f) : IsDigit(f[k])
    /\ (Len(f) > 1 => f[1] # "0")
    /\ DecimalValue(f) <= 255

\* validate_ipv4: Some(address as four numbers) or None
validate_ipv4(ip_str) ==
    LET fields == SplitDots(Trim(ip_str))
    IN  IF Len(fields) = 4 /\ \A k \in 1..4 : IsOctet(fields[k])
        THEN Some([k \in 1..4 |-> DecimalValue(fields[k])])
        ELSE None

RecordKinds == {<<"A">>, <<"A","A","A","A">>, <<"C","N","A","M","E">>, <<"M","X">>,
                <<"N","S">>, <<"P","T","R">>, <<"S","O","A">>, <<"S","R","V">>,
                <<"T","X","T">>, <<"C","A","A">>}

\* faulty variant of parse_record_type: the text is not trimmed
parse_record_type_untrimmed(record_type_str) ==
    LET record_type_upper == ToUppercase(record_type_str)
    IN  IF record_type_upper \in RecordKinds
        THEN [ok |-> TRUE, kind |-> record_type_upper]
        ELSE [ok |-> FALSE, msg |-> <<"Unsupported record type: ">> \o record_type_str]

\* parse_record_type: [ok |-> TRUE, kind |-> k] or [ok |-> FALSE, msg |-> text]
parse_record_type(record_type_str) ==
    LET record_type_upper == ToUppercase(Trim(record_type_str))
    IN  IF record_type_upper \in RecordKinds
        THEN [ok |-> TRUE, kind |-> record_type_upper]
        ELSE [ok |-> FALSE, msg |-> <<"Unsupported record type: ">> \o record_type_str]

\* ------------------------------------------------- the resolution capability
\* What the network answers, per server configuration.  The extension only
\* consumes these answers; they are fixed here so that the handle a lookup
\* uses decides its outcome.
Configs == {"default", "google", "cloudflare", "quad9"}

Ok(v) == [ok |-> TRUE, val |-> v]
Err(m) == [ok |-> FALSE, msg |-> m]

V4(o) == [v4 |-> TRUE, octets |-> o]
V6(t) == [v4 |-> FALSE, text |-> t]

HostH == <<"h">>
HostV == <<"v">>
HostE == <<"e">>
HostG == <<"g">>
HostN == <<"n">>
HostL == <<"l">>
HostM == <<"m">>

\* Display of an unsigned number
RECURSIVE DecimalText(_)
DecimalText(n) ==
    IF n < 10 THEN <<Digits[n + 1]>>
    ELSE DecimalText(n \div 10) \o <<Digits[(n % 10) + 1]>>

\* Resolver::reverse_lookup(ip): the PTR names as name.to_string() gives
\* them, in answer order (the name of 7.7.7.7 has a last label that ends
\* in an escaped '.', followed by the root '.')
reverse_lookup(config, ip) ==
    IF ip = <<1, 2, 3, 4>>
    THEN IF config = "google"
         THEN Ok(<< <<"b", ".", "x", ".">>, <<"a", ".", "x", ".">> >>)
         ELSE IF config = "default"
         THEN Ok(<< <<"a", ".", "x", ".">>, <<"b", ".", "x", ".">> >>)
         ELSE Ok(<< <<"c", ".", "x">> >>)
    ELSE IF ip = <<5, 6, 7, 8>>
    THEN Ok(<< <<"d", ".">> >>)
    ELSE IF ip = <<0, 0, 0, 0>>
    THEN Ok(<<>>)
    ELSE IF ip = <<7, 7, 7, 7>>
    THEN Ok(<< <<"e", "\\", ".", ".">> >>)
    ELSE Err(<<"no record">>)

\* Resolver::lookup_ip(hostname): the addresses, in answer order
lookup_ip(config, hostname) ==
    IF hostname = HostH
    THEN IF config = "default"
         THEN Ok(<<V6(<<":", ":", "1">>), V4(<<10, 0, 0, 1>>), V4(<<10, 0, 0, 2>>)>>)
         ELSE IF config = "google"
         THEN Ok(<<V4(<<10, 0, 0, 2>>), V6(<<":", ":", "1">>), V4(<<10, 0, 0, 1>>)>>)
         ELSE Ok(<<V4(<<192, 168, 1, 255>>)>>)
    ELSE IF hostname = HostV
    THEN Ok(<<V6(<<":", ":", "2">>)>>)
    ELSE IF hostname = HostG
    THEN Ok(<<V4(<<8, 8, 8, 8>>)>>)
    ELSE IF hostname = HostE
    THEN Ok(<<>>)
    ELSE Err(<<"no record">>)

\* Resolver::lookup(hostname, record_type): record.data().to_string() of
\* each record, in answer order
lookup(config, hostname, record_type) ==
    IF hostname = HostH /\ record_type = <<"M", "X">>
    THEN IF config = "google"
         THEN Ok(<< <<"2", "0", " ", "n", ".">>, <<"1", "0", " ", "m", ".">> >>)
         ELSE Ok(<< <<"1", "0", " ", "m", ".">>, <<"2", "0", " ", "n", ".">> >>)
    ELSE IF hostname = HostH /\ record_type = <<"T", "X", "T">>
    THEN IF config = "default"
         THEN Ok(<< <<"t", "1">>, <<"t", "2">>, <<"t", "3">> >>)
         ELSE Ok(<< <<"t", "2">> >>)
    ELSE IF hostname = HostL /\ record_type = <<"T", "X", "T">>
    THEN Ok([k \in 1..(VectorSize + 3) |-> <<"r">> \o DecimalText(k)])
    ELSE IF hostname = HostM /\ record_type = <<"T", "X", "T">>
    THEN Ok([k \in 1..VectorSize |-> <<"r">> \o DecimalText(k)])
    ELSE IF hostname = HostE
    THEN Ok(<<>>)
    ELSE Err(<<"no record">>)

\* Display of Ipv4Addr
Ipv4ToString(o) ==
    DecimalText(o[1]) \o <<".">> \o DecimalText(o[2]) \o <<".">>
        \o DecimalText(o[3]) \o <<".">> \o DecimalText(o[4])

\* ------------------------------------------------------ lookup protocols
\* Each protocol is split where the code awaits the resolver: the part
\* before the await decides whether a query is issued, the part after it
\* turns the answer into the row's result.

\* reverse_dns_lookup_async after the await (lines 186-196)
reverse_dns_lookup_result(answer) ==
    IF answer.ok
    THEN IF Len(answer.val) > 0
         THEN Ok(TrimEndDots(answer.val[1]))
         ELSE Err(<<"No hostname found for IP address">>)
    ELSE Err(<<"Reverse DNS lookup failed: ">> \o answer.msg)

\* the IPv4 addresses of an answer, formatted, in answer order
RECURSIVE Ipv4Texts(_)
Ipv4Texts(ips) ==
    IF ips = <<>> THEN <<>>
    ELSE IF Head(ips).v4
         THEN <<Ipv4ToString(Head(ips).octets)>> \o Ipv4Texts(Tail(ips))
         ELSE Ipv4Texts(Tail(ips))

\* faulty variant of dns_lookup_result: the first address whatever its family
dns_lookup_result_any(answer) ==
    IF answer.ok
    THEN IF Len(answer.val) > 0
         THEN Ok(IF answer.val[1].v4 THEN Ipv4ToString(answer.val[1].octets)
                 ELSE answer.val[1].text)
         ELSE Err(<<"No IPv4 addresses found for hostname">>)
    ELSE Err(<<"DNS lookup failed: ">> \o answer.msg)

\* dns_lookup_async after the await (lines 217-228)
dns_lookup_result(answer) ==
    IF answer.ok
    THEN IF Len(Ipv4Texts(answer.val)) > 0
         THEN Ok(Ipv4Texts(answer.val)[1])
         ELSE Err(<<"No IPv4 addresses found for hostname">>)
    ELSE Err(<<"DNS lookup failed: ">> \o answer.msg)

\* faulty variant of dns_lookup_all_result: the is_empty test is missing
dns_lookup_all_result_unchecked(answer) ==
    IF answer.ok THEN Ok(Ipv4Texts(answer.val))
    ELSE Err(<<"DNS lookup failed: ">> \o answer.msg)

\* dns_lookup_all_async after the await (lines 249-270)
dns_lookup_all_result(answer) ==
    IF answer.ok
    THEN IF Ipv4Texts(answer.val) = <<>>
         THEN Err(<<"No IPv4 addresses found for hostname">>)
         ELSE Ok(Ipv4Texts(answer.val))
    ELSE Err(<<"DNS lookup failed: ">> \o answer.msg)

\* dns_lookup_with_type_async after the await (lines 322-331)
dns_lookup_with_type_result(answer, record_type) ==
    IF answer.ok
    THEN IF Len(answer.val) > 0
         THEN Ok(answer.val[1])
         ELSE Err(<<"No ">> \o record_type \o <<" records found for hostname">>)
    ELSE Err(<<"DNS lookup failed: ">> \o answer.msg)

\* dns_lookup_all_with_type_async after the await (lines 354-368)
dns_lookup_all_with_type_result(answer, record_type) ==
    IF answer.ok
    THEN IF answer.val = <<>>
         THEN Err(<<"No ">> \o record_type \o <<" records found for hostname">>)
         ELSE Ok(answer.val)
    ELSE Err(<<"DNS lookup failed: ">> \o answer.msg)

\* faulty variant of ResultOk: a failure is passed on as its message
ResultOrMessage(r) == IF r.ok THEN Some(r.val) ELSE Some(r.msg)

\* Result::ok()
ResultOk(r) == IF r.ok THEN Some(r.val) ELSE None

\* ------------------------------------------------------------------ state
VARIABLES
    g_init,                 \* GLOBAL_DNS_STATE has been forced (Lazy)
    runtimes,               \* number of Tokio runtimes created so far
    resolver,               \* GLOBAL_DNS_STATE.resolver: id of the published handle
    concurrency_semaphore,  \* GLOBAL_DNS_STATE.concurrency_semaphore: id of the published semaphore
    cache_size,             \* GLOBAL_DNS_STATE.cache_size
    handles,                \* every Resolver built so far, by id
    sems,                   \* every Semaphore built so far, by id
    batch,                  \* the batch calls
    admin,                  \* the administrative calls
    bind                    \* the corey() binds

vars == <<g_init, runtimes, resolver, concurrency_semaphore, cache_size,
          handles, sems, batch, admin, bind>>

global == <<g_init, runtimes, resolver, concurrency_semaphore, cache_size>>

\* Resolver::builder_with_config(config, ..).with_options(opts).build()
\* (`by` records which operation built the handle)
BuildResolver(config, size, by) == [config |-> config, cache_size |-> size, by |-> by]

\* faulty variant of NewSemaphore: the pool is one permit short
NewSemaphoreShort(n) == [limit |-> n, permits |-> n - 1]

\* tokio::sync::Semaphore::new(permits)
NewSemaphore(n) == [limit |-> n, permits |-> n]

\* DnsResolverState::default(): the resolver and semaphore of a fresh state
DnsResolverStateDefault ==
    [resolver |-> BuildResolver("default", DefaultCacheSize, "default"),
     semaphore |-> NewSemaphore(DefaultConcurrency),
     cache_size |-> DefaultCacheSize]

\* Lazy::force of GLOBAL_DNS_STATE: the first use creates the state, every
\* later use finds it (the fields start at the values default() gives them)
Touch ==
    /\ g_init' = TRUE
    /\ runtimes' = IF g_init THEN runtimes ELSE runtimes + 1

IdleBatch ==
    [pc |-> "idle", kind |-> "none", cols |-> 1, rows |-> <<>>, sem |-> 0,
     tasks |-> <<>>, order |-> <<>>, output |-> <<>>]

IdleAdmin ==
    [pc |-> "idle", op |-> "none", rows |-> <<>>, i |-> 1, size |-> 0,
     config |-> "none", output |-> <<>>]

IdleBind ==
    [pc |-> "idle", hostname |-> <<>>, handle |-> 0, permit |-> 0, txt_records |-> <<>>,
     offset |-> 0, emitted |-> <<>>]

NewTask == [pc |-> "start", permit |-> 0, handle |-> 0, result |-> None,
            acquired |-> 0, queries |-> 0]

Init ==
    /\ g_init = FALSE
    /\ runtimes = 0
    /\ handles = <<DnsResolverStateDefault.resolver>>
    /\ sems = <<DnsResolverStateDefault.semaphore>>
    /\ resolver = 1
    /\ concurrency_semaphore = 1
    /\ cache_size = DnsResolverStateDefault.cache_size
    /\ batch = [b \in 1..MaxBatches |-> IdleBatch]
    /\ admin = [a \in 1..MaxAdmins |-> IdleAdmin]
    /\ bind = [c \in 1..MaxBinds |-> IdleBind]

\* ------------------------------------------------------------ batch calls
\* A row of a batch: the primary column (IP text or hostname) and, for the
\* two-argument forms, the record-type column (None when that cell is null).
NullRow == [is_null |-> TRUE, text |-> <<>>, rt |-> None]
Row(text) == [is_null |-> FALSE, text |-> text, rt |-> None]
Row2(text, rt) == [is_null |-> FALSE, text |-> text, rt |-> Some(rt)]

\* record_types.as_ref().and_then(|rt| rt[i].clone())
record_type_opt(cols, row) == IF cols > 1 THEN row.rt ELSE None

\* The query a task issues once it holds its permit, or None when the task
\* fails before the resolver is called (validate_ipv4 / parse_record_type).
TaskQuery(kind, cols, row) ==
    IF kind = "reverse"
    THEN IF IsSome(validate_ipv4(row.text))
         THEN Some([q |-> "reverse", ip |-> Unwrap(validate_ipv4(row.text))])
         ELSE None
    ELSE IF IsSome(record_type_opt(cols, row))
         THEN IF parse_record_type(Unwrap(record_type_opt(cols, row))).ok
              THEN Some([q |-> "typed", hostname |-> Trim(row.text),
                         record_type |-> parse_record_type(Unwrap(record_type_opt(cols, row))).kind])
              ELSE None
         ELSE Some([q |-> "ip", hostname |-> Trim(row.text)])

\* the answer of the resolver handle h to a query
Answer(h, query) ==
    IF query.q = "reverse" THEN reverse_lookup(h.config, query.ip)
    ELSE IF query.q = "ip" THEN lookup_ip(h.config, query.hostname)
    ELSE lookup(h.config, query.hostname, query.record_type)

\* result.ok() of the task of a row, given the answer to its query
TaskResult(kind, query, answer) ==
    IF kind = "reverse" THEN ResultOk(reverse_dns_lookup_result(answer))
    ELSE IF kind = "lookup"
    THEN IF query.q = "typed"
         THEN ResultOk(dns_lookup_with_type_result(answer, query.record_type))
         ELSE ResultOk(dns_lookup_result(answer))
    ELSE IF query.q = "typed"
         THEN ResultOk(dns_lookup_all_with_type_result(answer, query.record_type))
         ELSE ResultOk(dns_lookup_all_result(answer))

\* faulty variant of IsNullRow: the null test is forgotten
IsNullRowNever(row) == FALSE

\* is_null of the async block (row_is_null of the primary column)
IsNullRow(row) == row.is_null

\* faulty variant of CanAcquire: acquire keeps one permit in reserve
CanAcquireSpare(sem) == sem.permits > 1

\* faulty variant of CanAcquire: acquire never waits
CanAcquireAlways(sem) == TRUE

\* Semaphore::acquire returns only when a permit is available
CanAcquire(sem) == sem.permits > 0

\* faulty variant of TaskSemaphore: every task loads the published semaphore
TaskSemaphorePublished(b) == concurrency_semaphore

\* the semaphore a task of batch b acquires from: the `semaphore` loaded
\* once by invoke and cloned into every task
TaskSemaphore(b) == batch[b].sem

\* resolver.load() inside a lookup function: the handle published now
LoadResolver == resolver

\* faulty variant of ResolverGuard: the handle is loaded again when the
\* answer arrives
ResolverGuardReloaded(task) == resolver

\* the resolver_guard a lookup in flight keeps until its await returns
ResolverGuard(task) == task.handle

\* faulty variant of Release: the permit is forgotten, not dropped
ReleaseLeak(s, id) == s

\* dropping _permit gives the permit back to the semaphore it came from
Release(s, id) == [s EXCEPT ![id].permits = @ + 1]

Finish(b, i, task) ==
    [batch EXCEPT ![b].tasks[i] = task, ![b].order = Append(@, i)]

\* faulty variant of SpawnTask: a row whose payload an earlier row of the
\* batch carries gets no lookup of its own
SpawnTaskDistinct(rows, i) ==
    IF \E j \in 1..(i - 1) : rows[j] = rows[i]
    THEN [NewTask EXCEPT !.pc = "done"]
    ELSE NewTask

\* .iter().enumerate().map(..): one future per row, whatever its payload
SpawnTask(rows, i) == NewTask

\* the rows of the batch calls 1..n
RECURSIVE TotalRows(_)
TotalRows(n) == IF n = 0 THEN 0 ELSE Len(batch[n].rows) + TotalRows(n - 1)

\* invoke up to the point where block_on starts polling the tasks:
\* the semaphore is loaded once, the resolver is passed by reference
Invoke(b, kind, cols, rows) ==
    /\ batch[b].pc = "idle"
    /\ b > 1 => batch[b - 1].pc # "idle"
    /\ TotalRows(MaxBatches) + Len(rows) <= MaxTasks
    /\ Touch
    /\ batch' = [batch EXCEPT ![b] =
                    [pc |-> "running", kind |-> kind, cols |-> cols, rows |-> rows,
                     sem |-> concurrency_semaphore,
                     tasks |-> [i \in 1..Len(rows) |-> SpawnTask(rows, i)],
                     order |-> <<>>, output |-> <<>>]]
    /\ UNCHANGED <<resolver, concurrency_semaphore, cache_size, handles, sems, admin, bind>>

ReverseDnsLookupInvoke(b, rows) == Invoke(b, "reverse", 1, rows)
DnsLookupInvoke(b, cols, rows) == Invoke(b, "lookup", cols, rows)
DnsLookupAllInvoke(b, cols, rows) == Invoke(b, "lookup_all", cols, rows)

\* a task of a null row: (i, None) without permit or resolver
TaskNull(b, i) ==
    /\ batch[b].pc = "running"
    /\ i \in 1..Len(batch[b].tasks)
    /\ batch[b].tasks[i].pc = "start"
    /\ IsNullRow(batch[b].rows[i])
    /\ batch' = Finish(b, i, [batch[b].tasks[i] EXCEPT !.pc = "done", !.result = None])
    /\ UNCHANGED <<global, handles, sems, admin, bind>>

\* sem.acquire().await returns
TaskAcquire(b, i) ==
    /\ batch[b].pc = "running"
    /\ i \in 1..Len(batch[b].tasks)
    /\ batch[b].tasks[i].pc = "start"
    /\ ~IsNullRow(batch[b].rows[i])
    /\ CanAcquire(sems[TaskSemaphore(b)])
    /\ sems' = [sems EXCEPT ![TaskSemaphore(b)].permits = @ - 1]
    /\ batch' = [batch EXCEPT ![b].tasks[i] =
                    [@ EXCEPT !.pc = "permit", !.permit = TaskSemaphore(b),
                              !.acquired = @ + 1]]
    /\ UNCHANGED <<global, handles, admin, bind>>

\* validate_ipv4 or parse_record_type fails: the task ends without a query
\* and drops its permit
TaskReject(b, i) ==
    /\ batch[b].pc = "running"
    /\ i \in 1..Len(batch[b].tasks)
    /\ batch[b].tasks[i].pc = "permit"
    /\ TaskQuery(batch[b].kind, batch[b].cols, batch[b].rows[i]) = None
    /\ sems' = Release(sems, batch[b].tasks[i].permit)
    /\ batch' = Finish(b, i, [batch[b].tasks[i] EXCEPT
                                 !.pc = "done", !.permit = 0, !.result = None])
    /\ UNCHANGED <<global, handles, admin, bind>>

\* the lookup function loads the resolver and issues its query
TaskIssue(b, i) ==
    /\ batch[b].pc = "running"
    /\ i \in 1..Len(batch[b].tasks)
    /\ batch[b].tasks[i].pc = "permit"
    /\ TaskQuery(batch[b].kind, batch[b].cols, batch[b].rows[i]) # None
    /\ batch' = [batch EXCEPT ![b].tasks[i] =
                    [@ EXCEPT !.pc = "query", !.handle = LoadResolver,
                              !.queries = @ + 1]]
    /\ UNCHANGED <<global, handles, sems, admin, bind>>

\* the resolver answers: the lookup function returns, the permit is dropped
TaskComplete(b, i) ==
    /\ batch[b].pc = "running"
    /\ i \in 1..Len(batch[b].tasks)
    /\ batch[b].tasks[i].pc = "query"
    /\ LET query == Unwrap(TaskQuery(batch[b].kind, batch[b].cols, batch[b].rows[i]))
           answer == Answer(handles[ResolverGuard(batch[b].tasks[i])], query)
       IN  batch' = Finish(b, i, [batch[b].tasks[i] EXCEPT
                                     !.pc = "done", !.permit = 0,
                                     !.result = TaskResult(batch[b].kind, query, answer)])
    /\ sems' = Release(sems, batch[b].tasks[i].permit)
    /\ UNCHANGED <<global, handles, admin, bind>>

\* what the async block of row i returns: (i, result) in reverse_dns_lookup
\* and dns_lookup, the bare result in dns_lookup_all
TaskValue(kind, i, result) == IF kind = "lookup_all" THEN result ELSE <<i, result>>

\* faulty variant of JoinAll: the values in the order of completion
JoinAllByCompletion(kind, tasks, order) ==
    [k \in 1..Len(tasks) |-> TaskValue(kind, order[k], tasks[order[k]].result)]

\* futures::future::join_all: the values in the order of the futures,
\* whatever the order of completion
JoinAll(kind, tasks, order) ==
    [k \in 1..Len(tasks) |-> TaskValue(kind, k, tasks[k].result)]

\* reverse_dns_lookup / dns_lookup: results.into_iter().take(size), each
\* pair written to the output row it names
WriteIndexed(size, results) ==
    LET taken == SubSeq(results, 1, IF Len(results) < size THEN Len(results) ELSE size)
    IN  [i \in 1..size |->
            IF \E k \in 1..Len(taken) : taken[k][1] = i
            THEN taken[CHOOSE k \in 1..Len(taken) : taken[k][1] = i][2]
            ELSE None]

\* dns_lookup_all: the child vector holds the records of all rows one after
\* the other; row i is the entry (offset, length) set while enumerating
RECURSIVE ChildVector(_)
ChildVector(results) ==
    IF results = <<>> THEN <<>>
    ELSE (IF IsSome(Head(results)) THEN Unwrap(Head(results)) ELSE <<>>)
             \o ChildVector(Tail(results))

WriteLists(size, results) ==
    LET child == ChildVector(results)
        offset(i) == Len(ChildVector(SubSeq(results, 1, i - 1)))
    IN  [i \in 1..size |->
            IF i <= Len(results) /\ IsSome(results[i])
            THEN Some(SubSeq(child, offset(i) + 1, offset(i) + Len(Unwrap(results[i]))))
            ELSE None]

\* faulty variant of AllComplete: ready as soon as one task is done
AnyComplete(tasks) == tasks = <<>> \/ \E i \in 1..Len(tasks) : tasks[i].pc = "done"

\* join_all is ready when every future it holds has produced its value
AllComplete(tasks) == \A i \in 1..Len(tasks) : tasks[i].pc = "done"

\* block_on(join_all(..)) returns once every task is done; the output
\* vector is written and invoke returns Ok(())
Join(b) ==
    /\ batch[b].pc = "running"
    /\ AllComplete(batch[b].tasks)
    /\ LET results == JoinAll(batch[b].kind, batch[b].tasks, batch[b].order)
           size == Len(batch[b].rows)
       IN  batch' = [batch EXCEPT
                        ![b].pc = "done",
                        ![b].output = IF batch[b].kind = "lookup_all"
                                      THEN WriteLists(size, results)
                                      ELSE WriteIndexed(size, results)]
    /\ UNCHANGED <<global, handles, sems, admin, bind>>

\* ------------------------------------------------- administrative calls
\* Display of i64
IntText(n) == IF n < 0 THEN <<"-">> \o DecimalText(0 - n) ELSE DecimalText(n)

\* `n as usize`
AsUsize(n) == n % (2 ^ UsizeBits)

\* faulty variant of PresetConfig: an unknown preset falls back to default
PresetConfigLenient(preset) ==
    IF preset = <<"g", "o", "o", "g", "l", "e">> THEN Some("google")
    ELSE IF preset = <<"c", "l", "o", "u", "d", "f", "l", "a", "r", "e">> THEN Some("cloudflare")
    ELSE IF preset = <<"q", "u", "a", "d", "9">> THEN Some("quad9")
    ELSE Some("default")

\* the preset match of SetDnsConfig::invoke: Some(config) or None
PresetConfig(preset) ==
    IF preset = <<"d", "e", "f", "a", "u", "l", "t">> THEN Some("default")
    ELSE IF preset = <<"g", "o", "o", "g", "l", "e">> THEN Some("google")
    ELSE IF preset = <<"c", "l", "o", "u", "d", "f", "l", "a", "r", "e">> THEN Some("cloudflare")
    ELSE IF preset = <<"q", "u", "a", "d", "9">> THEN Some("quad9")
    ELSE None

\* faulty variant of LimitRejected: only zero is rejected
LimitRejectedZeroOnly(limit) == limit = 0

\* `if limit <= 0` of SetConcurrencyLimit::invoke
LimitRejected(limit) == limit <= 0

\* faulty variant of CacheSizeRejected: only zero is rejected
CacheSizeRejectedZeroOnly(n) == n = 0

\* `if cache_size <= 0` of SetDnsCacheSize::invoke
CacheSizeRejected(n) == n <= 0

MustBeGreater == "must be greater than 0"

\* faulty variant of ZeroRejected: the check on the cast value is missing
ZeroRejectedNever(n) == FALSE

\* `if limit == 0` of set_dns_concurrency_limit and `if size == 0` of
\* set_dns_cache_size, on the value after the cast to usize
ZeroRejected(n) == n = 0

\* the call returns a row to the caller and moves to the next row
NextRow(a, out) ==
    [admin EXCEPT ![a].output = Append(@, out),
                  ![a].i = @ + 1,
                  ![a].pc = IF admin[a].i + 1 > Len(admin[a].rows) THEN "done" ELSE "row"]

\* an administrative scalar function is called with a vector of rows
AdminInvoke(a, op, rows) ==
    /\ admin[a].pc = "idle"
    /\ a > 1 => admin[a - 1].pc # "idle"
    /\ admin' = [admin EXCEPT ![a] =
                    [IdleAdmin EXCEPT !.pc = IF rows = <<>> THEN "done" ELSE "row",
                                      !.op = op, !.rows = rows]]
    /\ UNCHANGED <<global, handles, sems, batch, bind>>

SetDnsConfigInvoke(a, rows) == AdminInvoke(a, "config", rows)
SetConcurrencyLimitInvoke(a, rows) == AdminInvoke(a, "limit", rows)
SetDnsCacheSizeInvoke(a, rows) == AdminInvoke(a, "cache", rows)

AtRow(a, op) == admin[a].pc = "row" /\ admin[a].op = op
Arg(a) == admin[a].rows[admin[a].i]

\* SetDnsConfig::invoke, a row that does not reach update_config
SetDnsConfigSkip(a) ==
    /\ AtRow(a, "config")
    /\ \/ /\ Arg(a) = None
          /\ admin' = NextRow(a, None)
       \/ /\ Arg(a) # None
          /\ PresetConfig(ToLowercase(Trim(Unwrap(Arg(a))))) = None
          /\ admin' = NextRow(a, Some(<<"Unknown preset '">>
                                 \o ToLowercase(Trim(Unwrap(Arg(a))))
                                 \o <<"'. Supported presets: default, google, cloudflare, quad9">>))
    /\ UNCHANGED <<global, handles, sems, batch, bind>>

\* faulty variant of StoredCacheSize: update_config starts from the default
StoredCacheSizeDefault == DefaultCacheSize

\* `**self.cache_size.load()` of update_config
StoredCacheSize == cache_size

\* update_config, line 91: the stored cache size preference is loaded
UpdateConfigLoad(a) ==
    /\ AtRow(a, "config")
    /\ Arg(a) # None
    /\ PresetConfig(ToLowercase(Trim(Unwrap(Arg(a))))) # None
    /\ Touch
    /\ admin' = [admin EXCEPT
                    ![a].pc = "uc_store",
                    ![a].size = StoredCacheSize,
                    ![a].config = Unwrap(PresetConfig(ToLowercase(Trim(Unwrap(Arg(a))))))]
    /\ UNCHANGED <<resolver, concurrency_semaphore, cache_size, handles, sems, batch, bind>>

\* update_config, line 103: the new resolver is published
UpdateConfigStore(a) ==
    /\ admin[a].pc = "uc_store"
    /\ handles' = Append(handles, BuildResolver(admin[a].config, admin[a].size, "config"))
    /\ resolver' = Len(handles) + 1
    /\ admin' = NextRow(a, Some(<<"DNS configuration updated to '">>
                                \o ToLowercase(Trim(Unwrap(Arg(a)))) \o <<"'">>))
    /\ UNCHANGED <<g_init, runtimes, concurrency_semaphore, cache_size, sems, batch, bind>>

\* SetConcurrencyLimit::invoke, one row
SetConcurrencyLimitRow(a) ==
    /\ AtRow(a, "limit")
    /\ \/ /\ Arg(a) = None
          /\ admin' = NextRow(a, None)
          /\ UNCHANGED <<global, sems>>
       \/ /\ Arg(a) # None
          /\ LimitRejected(Unwrap(Arg(a)))
          /\ admin' = NextRow(a, Some(<<"Concurrency limit ", MustBeGreater>>))
          /\ UNCHANGED <<global, sems>>
       \/ /\ Arg(a) # None
          /\ ~LimitRejected(Unwrap(Arg(a)))
          /\ Touch
          /\ IF ZeroRejected(AsUsize(Unwrap(Arg(a))))
             THEN /\ admin' = NextRow(a, Some(<<"Failed to update concurrency limit: ",
                                                "Concurrency limit ", MustBeGreater>>))
                  /\ UNCHANGED <<concurrency_semaphore, sems>>
             ELSE /\ sems' = Append(sems, NewSemaphore(AsUsize(Unwrap(Arg(a)))))
                  /\ concurrency_semaphore' = Len(sems) + 1
                  /\ admin' = NextRow(a, Some(<<"Concurrency limit updated to ">>
                                              \o IntText(Unwrap(Arg(a)))))
          /\ UNCHANGED <<resolver, cache_size>>
    /\ UNCHANGED <<handles, batch, bind>>

\* SetDnsCacheSize::invoke, one row up to line 132 of set_dns_cache_size:
\* the row is rejected, or the preference is stored
SetDnsCacheSizeRow(a) ==
    /\ AtRow(a, "cache")
    /\ \/ /\ Arg(a) = None
          /\ admin' = NextRow(a, None)
          /\ UNCHANGED global
       \/ /\ Arg(a) # None
          /\ CacheSizeRejected(Unwrap(Arg(a)))
          /\ admin' = NextRow(a, Some(<<"Cache size ", MustBeGreater>>))
          /\ UNCHANGED global
       \/ /\ Arg(a) # None
          /\ ~CacheSizeRejected(Unwrap(Arg(a)))
          /\ Touch
          /\ IF ZeroRejected(AsUsize(Unwrap(Arg(a))))
             THEN /\ admin' = NextRow(a, Some(<<"Failed to update cache size: ",
                                                "Cache size ", MustBeGreater>>))
                  /\ UNCHANGED cache_size
             ELSE /\ cache_size' = AsUsize(Unwrap(Arg(a)))
                  /\ admin' = [admin EXCEPT ![a].pc = "cs_load",
                                            ![a].size = AsUsize(Unwrap(Arg(a)))]
          /\ UNCHANGED <<resolver, concurrency_semaphore>>
    /\ UNCHANGED <<handles, sems, batch, bind>>

\* faulty variant of CurrentConfig: the rebuilt resolver starts from the
\* default configuration
CurrentConfigDefault == "default"

\* `self.resolver.load().config().clone()` of set_dns_cache_size
CurrentConfig == handles[resolver].config

\* set_dns_cache_size, lines 135-137: the configuration and the options of
\* the published resolver are loaded; of the options only cache_size differs
\* between resolvers, and it is overwritten
SetDnsCacheSizeLoad(a) ==
    /\ admin[a].pc = "cs_load"
    /\ admin' = [admin EXCEPT ![a].pc = "cs_store",
                              ![a].config = CurrentConfig]
    /\ UNCHANGED <<global, handles, sems, batch, bind>>

\* set_dns_cache_size, line 147: the rebuilt resolver is published
SetDnsCacheSizeStore(a) ==
    /\ admin[a].pc = "cs_store"
    /\ handles' = Append(handles, BuildResolver(admin[a].config, admin[a].size, "cache"))
    /\ resolver' = Len(handles) + 1
    /\ admin' = NextRow(a, Some(<<"DNS cache size updated to ">> \o IntText(Unwrap(Arg(a)))))
    /\ UNCHANGED <<g_init, runtimes, concurrency_semaphore, cache_size, sems, batch, bind>>

\* ------------------------------------------------------------- corey()
TXT == <<"T", "X", "T">>

\* Corey::bind up to the await of line 1069: a DnsResolverState of its own
\* is created (a runtime, a resolver, a semaphore) and the TXT query is
\* issued on its resolver; no semaphore is acquired (permit stays 0)
CoreyBind(c, hostname) ==
    /\ bind[c].pc = "idle"
    /\ c > 1 => bind[c - 1].pc # "idle"
    /\ runtimes' = runtimes + 1
    /\ handles' = Append(handles, [DnsResolverStateDefault.resolver EXCEPT !.by = "corey"])
    /\ sems' = Append(sems, DnsResolverStateDefault.semaphore)
    /\ bind' = [bind EXCEPT ![c] = [IdleBind EXCEPT !.pc = "query",
                                                    !.hostname = hostname,
                                                    !.handle = Len(handles) + 1]]
    /\ UNCHANGED <<g_init, resolver, concurrency_semaphore, cache_size, batch, admin>>

\* Corey::bind from the answer on: the records are kept, or bind fails
CoreyBindComplete(c) ==
    /\ bind[c].pc = "query"
    /\ LET answer == lookup(handles[bind[c].handle].config, Trim(bind[c].hostname), TXT)
       IN  bind' = [bind EXCEPT ![c].pc = IF answer.ok THEN "bound" ELSE "failed",
                                ![c].txt_records = IF answer.ok THEN answer.val ELSE <<>>]
    /\ UNCHANGED <<global, handles, sems, batch, admin>>

\* Corey::init
CoreyInit(c) ==
    /\ bind[c].pc = "bound"
    /\ bind' = [bind EXCEPT ![c].pc = "scan", ![c].offset = 0]
    /\ UNCHANGED <<global, handles, sems, batch, admin>>

\* faulty variant of Min: the chunk is never capped
MinUncapped(x, y) == x

Min(x, y) == IF x < y THEN x ELSE y

\* Corey::func: one chunk of the scan; a call after the empty chunk gives
\* the empty chunk again
CoreyFunc(c) ==
    /\ bind[c].pc \in {"scan", "end"}
    /\ LET offset == bind[c].offset
           remaining == IF Len(bind[c].txt_records) > offset
                        THEN Len(bind[c].txt_records) - offset ELSE 0
           chunk_size == Min(remaining, VectorSize)
       IN  IF remaining = 0
           THEN bind' = [bind EXCEPT ![c].pc = "end"]
           ELSE bind' = [bind EXCEPT
                            ![c].offset = offset + chunk_size,
                            ![c].emitted = Append(@, SubSeq(bind[c].txt_records,
                                                            offset + 1, offset + chunk_size))]
    /\ UNCHANGED <<global, handles, sems, batch, admin>>

\* ------------------------------------------------------------- the calls
SeqsUpTo(S, n) == UNION {[1..k -> S] : k \in 0..n}

Ip1234 == <<"1", ".", "2", ".", "3", ".", "4">>
Ip5678 == <<" ", "5", ".", "6", ".", "7", ".", "8">>
IpBad == <<"1", ".", "2", ".", "3">>
Ip0000 == <<"0", ".", "0", ".", "0", ".", "0">>
Ip9999 == <<"9", ".", "9", ".", "9", ".", "9">>
Ip7777 == <<"7", ".", "7", ".", "7", ".", "7">>
Google == <<"g", "o", "o", "g", "l", "e">>
Quad9 == <<" ", "Q", "u", "a", "d", "9">>
Bogus == <<"b", "i", "n", "d">>

\* the steps of the tasks of the running batches
LookupStep ==
    \E b \in 1..MaxBatches, i \in 1..MaxRows :
        TaskAcquire(b, i) \/ TaskIssue(b, i) \/ TaskComplete(b, i)
TaskStep ==
    \/ LookupStep
    \/ \E b \in 1..MaxBatches, i \in 1..MaxRows : TaskNull(b, i) \/ TaskReject(b, i)

\* the steps of the running administrative calls
UpdateConfigStep == \E a \in 1..MaxAdmins : UpdateConfigLoad(a) \/ UpdateConfigStore(a)
ConfigStep == UpdateConfigStep \/ \E a \in 1..MaxAdmins : SetDnsConfigSkip(a)
LimitStep == \E a \in 1..MaxAdmins : SetConcurrencyLimitRow(a)
CacheSizeStep == \E a \in 1..MaxAdmins :
    SetDnsCacheSizeRow(a) \/ SetDnsCacheSizeLoad(a) \/ SetDnsCacheSizeStore(a)

\* One batch call at a time, every shape of row, no administrative call.
BatchReverseRows == {NullRow, Row(Ip1234), Row(Ip5678), Row(IpBad)}
BatchLookupRows == {NullRow, Row(HostH), Row(HostG), Row(HostV)}
BatchTypedRows == {NullRow, [is_null |-> TRUE, text |-> <<>>, rt |-> Some(<<"m", "x">>)],
                   Row(HostH), Row2(HostH, <<"m", "x">>), Row2(HostH, <<" ", "T", "x", "t">>),
                   Row2(HostH, <<"z", "z">>)}

NextBatch ==
    \/ \E rows \in SeqsUpTo(BatchReverseRows, MaxRows) : ReverseDnsLookupInvoke(1, rows)
    \/ \E rows \in SeqsUpTo(BatchLookupRows, MaxRows) : DnsLookupInvoke(1, 1, rows)
    \/ \E rows \in SeqsUpTo(BatchTypedRows, MaxRows) : DnsLookupInvoke(1, 2, rows)
    \/ \E rows \in SeqsUpTo(BatchLookupRows, MaxRows) : DnsLookupAllInvoke(1, 1, rows)
    \/ \E rows \in SeqsUpTo(BatchTypedRows, MaxRows) : DnsLookupAllInvoke(1, 2, rows)
    \/ TaskStep
    \/ Join(1)

SpecBatch == Init /\ [][NextBatch]_vars

\* One batch call at a time over rows whose lookups fail in every way.
FailReverseRows == {NullRow, Row(Ip5678), Row(IpBad), Row(Ip0000), Row(Ip9999), Row(Ip7777)}
FailLookupRows == {Row(HostH), Row(HostG), Row(HostV), Row(HostE), Row(HostN)}
FailTypedRows == {Row2(HostH, <<"m", "x">>), Row2(HostH, <<"z", "z">>),
                  Row2(HostE, <<"m", "x">>), Row2(HostN, <<"m", "x">>)}

NextFail ==
    \/ \E rows \in SeqsUpTo(FailReverseRows, MaxRows) : ReverseDnsLookupInvoke(1, rows)
    \/ \E rows \in SeqsUpTo(FailTypedRows, MaxRows) : DnsLookupInvoke(1, 2, rows)
    \/ \E rows \in SeqsUpTo(FailLookupRows, MaxRows) : DnsLookupAllInvoke(1, 1, rows)
    \/ \E rows \in SeqsUpTo(FailTypedRows, MaxRows) : DnsLookupAllInvoke(1, 2, rows)
    \/ TaskStep
    \/ Join(1)

SpecFail == Init /\ [][NextFail]_vars

\* One two-argument dns_lookup call of one row, over every record-type
\* text of up to MaxText characters.
RecordTypeChars == {"a", "A", "m", "x", "X", " "}

NextParse ==
    \/ /\ batch[1].pc = "idle"
       /\ \E rt \in SeqsUpTo(RecordTypeChars, MaxText) :
             DnsLookupInvoke(1, 2, <<Row2(HostH, rt)>>)
    \/ LookupStep
    \/ \E b \in 1..MaxBatches, i \in 1..MaxRows : TaskReject(b, i)
    \/ Join(1)

SpecParse == Init /\ [][NextParse]_vars

\* Concurrent batch calls and one set_dns_concurrency_limit call.
LimitRows == {Row(Ip1234)}
LimitArgs == {None, Some(-1), Some(0), Some(1), Some(2)}

NextLimit ==
    \/ \E b \in 1..MaxBatches, rows \in SeqsUpTo(LimitRows, MaxRows) :
          ReverseDnsLookupInvoke(b, rows)
    \/ LookupStep
    \/ \E b \in 1..MaxBatches : Join(b)
    \/ \E rows \in SeqsUpTo(LimitArgs, 1) : SetConcurrencyLimitInvoke(1, rows)
    \/ LimitStep

SpecLimit == Init /\ [][NextLimit]_vars

\* One batch call of lookups with concurrent set_dns_config and
\* set_dns_cache_size calls.
SwapRows == {Row(Ip1234)}
SwapPresetArgs == {Some(Google), Some(Quad9)}
SwapCacheSizeArgs == {None, Some(0), Some(8)}

NextSwap ==
    \/ \E rows \in SeqsUpTo(SwapRows, MaxRows) : ReverseDnsLookupInvoke(1, rows)
    \/ LookupStep
    \/ Join(1)
    \/ \E a \in 1..MaxAdmins, rows \in SeqsUpTo(SwapPresetArgs, 1) : SetDnsConfigInvoke(a, rows)
    \/ \E a \in 1..MaxAdmins, rows \in SeqsUpTo(SwapCacheSizeArgs, 1) : SetDnsCacheSizeInvoke(a, rows)
    \/ UpdateConfigStep
    \/ CacheSizeStep

SpecSwap == Init /\ [][NextSwap]_vars

\* One batch call with one set_dns_config or set_dns_cache_size call.
FlightRows == {NullRow, Row(Ip1234), Row(IpBad)}
PresetArgs == {None, Some(Google), Some(Quad9), Some(Bogus)}
CacheSizeArgs == {None, Some(-1), Some(0), Some(8)}

NextFlight ==
    \/ \E rows \in SeqsUpTo(FlightRows, MaxRows) : ReverseDnsLookupInvoke(1, rows)
    \/ TaskStep
    \/ Join(1)
    \/ \E rows \in SeqsUpTo(PresetArgs, 1) : SetDnsConfigInvoke(1, rows)
    \/ \E rows \in SeqsUpTo(CacheSizeArgs, 1) : SetDnsCacheSizeInvoke(1, rows)
    \/ ConfigStep
    \/ CacheSizeStep

SpecFlight == Init /\ [][NextFlight]_vars

\* Administrative calls only, every shape of argument.

NextAdmin ==
    \/ \E a \in 1..MaxAdmins, rows \in SeqsUpTo(PresetArgs, 1) : SetDnsConfigInvoke(a, rows)
    \/ \E a \in 1..MaxAdmins, rows \in SeqsUpTo(LimitArgs, 1) : SetConcurrencyLimitInvoke(a, rows)
    \/ \E a \in 1..MaxAdmins, rows \in SeqsUpTo(CacheSizeArgs, 1) : SetDnsCacheSizeInvoke(a, rows)
    \/ ConfigStep
    \/ LimitStep
    \/ CacheSizeStep

SpecAdmin == Init /\ [][NextAdmin]_vars

\* Concurrent administrative calls whose arguments are null, negative, zero,
\* valid, or a positive number that the cast to usize turns into zero.
FieldLimitArgs == {None, Some(-1), Some(0), Some(3), Some(2 ^ UsizeBits)}
FieldCacheSizeArgs == {None, Some(-1), Some(0), Some(8), Some(2 ^ UsizeBits)}

NextFields ==
    \/ \E a \in 1..MaxAdmins, rows \in SeqsUpTo(PresetArgs, 1) : SetDnsConfigInvoke(a, rows)
    \/ \E a \in 1..MaxAdmins, rows \in SeqsUpTo(FieldLimitArgs, 1) :
          SetConcurrencyLimitInvoke(a, rows)
    \/ \E a \in 1..MaxAdmins, rows \in SeqsUpTo(FieldCacheSizeArgs, 1) :
          SetDnsCacheSizeInvoke(a, rows)
    \/ ConfigStep
    \/ LimitStep
    \/ CacheSizeStep

SpecFields == Init /\ [][NextFields]_vars

\* One set_dns_config call over several rows next to one
\* set_dns_cache_size or set_dns_concurrency_limit call.
NoSuch == <<" ", "N", "o">>
PresetRowArgs == {None, Some(Google), Some(Bogus), Some(NoSuch)}

NextPreset ==
    \/ \E rows \in SeqsUpTo(PresetRowArgs, MaxRows) : SetDnsConfigInvoke(1, rows)
    \/ \E rows \in SeqsUpTo({Some(8)}, 1) : SetDnsCacheSizeInvoke(2, rows)
    \/ \E rows \in SeqsUpTo({Some(2)}, 1) : SetConcurrencyLimitInvoke(2, rows)
    \/ ConfigStep
    \/ LimitStep
    \/ CacheSizeStep

SpecPreset == Init /\ [][NextPreset]_vars

\* set_dns_config and set_dns_cache_size calls one after the other: a call
\* starts when the call before it has returned.
SeqPresetArgs == {Some(Google), Some(Quad9)}
SeqCacheSizeArgs == {Some(0), Some(8), Some(16)}

NextSeq ==
    \/ \E a \in 1..MaxAdmins, rows \in SeqsUpTo(SeqPresetArgs, MaxRows) :
          (a > 1 => admin[a - 1].pc = "done") /\ SetDnsConfigInvoke(a, rows)
    \/ \E a \in 1..MaxAdmins, rows \in SeqsUpTo(SeqCacheSizeArgs, 1) :
          (a > 1 => admin[a - 1].pc = "done") /\ SetDnsCacheSizeInvoke(a, rows)
    \/ UpdateConfigStep
    \/ CacheSizeStep

SpecSeq == Init /\ [][NextSeq]_vars

\* corey() binds and scans over TXT answers of every length, next to a
\* set_dns_config call.
ScanHosts == {HostH, HostE, HostV, HostL, HostM}

NextScan ==
    \/ \E c \in 1..MaxBinds, h \in ScanHosts : CoreyBind(c, h)
    \/ \E c \in 1..MaxBinds :
          CoreyBindComplete(c) \/ CoreyInit(c) \/ CoreyFunc(c)
    \/ \E rows \in SeqsUpTo({Some(Google), Some(Quad9)}, 1) : SetDnsConfigInvoke(1, rows)
    \/ UpdateConfigStep

SpecScan == Init /\ [][NextScan]_vars

\* corey() binds and scans next to a batch call and a set_dns_config call.
BindHosts == {HostH, HostE, HostV}

NextCorey ==
    \/ \E c \in 1..MaxBinds, h \in BindHosts : CoreyBind(c, h)
    \/ \E c \in 1..MaxBinds :
          CoreyBindComplete(c) \/ CoreyInit(c) \/ CoreyFunc(c)
    \/ \E rows \in SeqsUpTo({NullRow, Row(HostH), Row2(HostH, Bogus)}, 1) :
          DnsLookupAllInvoke(1, 2, rows)
    \/ TaskStep
    \/ Join(1)
    \/ \E rows \in SeqsUpTo({None, Some(Google)}, 1) : SetDnsConfigInvoke(1, rows)
    \/ ConfigStep

SpecCorey == Init /\ [][NextCorey]_vars

\* Concurrent batch calls of one row between set_dns_concurrency_limit(1)
\* calls.
PoolRows == {Row(HostG)}

NextPool ==
    \/ \E b \in 1..MaxBatches, rows \in SeqsUpTo(PoolRows, 1) : DnsLookupInvoke(b, 1, rows)
    \/ LookupStep
    \/ \E b \in 1..MaxBatches : Join(b)
    \/ \E a \in 1..MaxAdmins : SetConcurrencyLimitInvoke(a, <<Some(1)>>)
    \/ LimitStep

SpecPool == Init /\ [][NextPool]_vars

\* One dns_lookup call at a time, with and without a record type, over
\* hostnames whose answers start with an IPv6 address, hold no IPv4 address,
\* are empty or are an error.
LookupRows == {Row(HostH), Row(HostV), Row(HostE), Row(HostN)}
LookupTypedRows == {Row2(HostH, <<"m", "x">>), Row2(HostH, <<"z", "z">>),
                    Row2(HostE, <<"m", "x">>), Row2(HostN, <<"m", "x">>)}

NextLookup ==
    \/ \E rows \in SeqsUpTo(LookupRows, MaxRows) : DnsLookupInvoke(1, 1, rows)
    \/ \E rows \in SeqsUpTo(LookupTypedRows, MaxRows) : DnsLookupInvoke(1, 2, rows)
    \/ LookupStep
    \/ \E b \in 1..MaxBatches, i \in 1..MaxRows : TaskReject(b, i)
    \/ Join(1)

SpecLookup == Init /\ [][NextLookup]_vars

\* Two concurrent batch calls while the limit and the resolver are replaced,
\* under fair scheduling: the multi-thread runtime keeps polling every task
\* that can make progress, the resolver answers every query, and block_on
\* returns once join_all is ready.
LiveRows == {Row(HostG)}

NextLive ==
    \/ \E b \in 1..2, rows \in SeqsUpTo(LiveRows, MaxRows) :
          DnsLookupInvoke(b, 1, rows)
    \/ LookupStep
    \/ \E b \in 1..MaxBatches : Join(b)
    \/ SetConcurrencyLimitInvoke(1, <<Some(1)>>)
    \/ admin[1].pc = "done" /\ SetDnsConfigInvoke(2, <<Some(Google)>>)
    \/ LimitStep
    \/ UpdateConfigStep

SpecLive ==
    /\ Init
    /\ [][NextLive]_vars
    /\ WF_batch(LookupStep)
    /\ WF_batch(\E b \in 1..MaxBatches : Join(b))

\* ============================================================ properties
Running(b) == batch[b].pc = "running"
Done(b) == batch[b].pc = "done"
Started(b) == batch[b].pc # "idle"
Rows(b) == 1..Len(batch[b].rows)
Task(b, i) == batch[b].tasks[i]

\* the outcome of the lookup for row i of batch b: Null for a null row and
\* for a row that fails before the resolver is called, otherwise what the
\* protocol makes of the answer of the handle the task used
OutcomeOf(b, i) ==
    LET query == TaskQuery(batch[b].kind, batch[b].cols, batch[b].rows[i])
    IN  IF batch[b].rows[i].is_null \/ query = None
        THEN None
        ELSE TaskResult(batch[b].kind, Unwrap(query),
                        Answer(handles[Task(b, i).handle], Unwrap(query)))

\* C1: when a batch call has returned, its output has as many rows as its
\* input and output row i is the outcome of the lookup for input row i,
\* whatever the order in which the tasks completed.
C1_OutputAligned ==
    \A b \in 1..MaxBatches :
        Done(b) =>
            /\ Len(batch[b].output) = Len(batch[b].rows)
            /\ \A i \in Rows(b) : batch[b].output[i] = OutcomeOf(b, i)

\* a dns_lookup_all call whose second task completed first, with two
\* different non-null outcomes
C1_Witness ==
    \E b \in 1..MaxBatches :
        /\ Done(b)
        /\ batch[b].kind = "lookup_all"
        /\ Len(batch[b].rows) = 2
        /\ batch[b].order = <<2, 1>>
        /\ batch[b].output[1] # None
        /\ batch[b].output[2] # None
        /\ batch[b].output[1] # batch[b].output[2]

AllNull(b) == \A i \in Rows(b) : batch[b].rows[i].is_null

\* C2: the task of a null row never acquires a permit and never calls the
\* resolver, and its output row is Null; a batch whose rows are all null
\* (an empty batch included) leaves the permits of its semaphore untouched.
C2_NullRows ==
    \A b \in 1..MaxBatches :
        Started(b) =>
            /\ \A i \in Rows(b) :
                  batch[b].rows[i].is_null =>
                      /\ Task(b, i).acquired = 0
                      /\ Task(b, i).queries = 0
                      /\ Task(b, i).permit = 0
                      /\ Task(b, i).handle = 0
                      /\ Done(b) => batch[b].output[i] = None
            /\ AllNull(b) =>
                  sems[batch[b].sem].permits = sems[batch[b].sem].limit

\* a returned batch with a null row next to a row that took a permit and
\* called the resolver
C2_Witness ==
    \E b \in 1..MaxBatches :
        /\ Done(b)
        /\ Len(batch[b].rows) = 2
        /\ batch[b].rows[1].is_null
        /\ batch[b].output[1] = None
        /\ Task(b, 2).acquired = 1
        /\ Task(b, 2).queries = 1

\* the permits of semaphore s that tasks hold
Holders(s) ==
    {<<b, i>> \in (1..MaxBatches) \X (1..MaxRows) :
        /\ Started(b)
        /\ i \in Rows(b)
        /\ Task(b, i).permit = s}
Held(s) == Cardinality(Holders(s))

\* C3: the permits held from one semaphore never exceed the limit the
\* semaphore was created with, and the semaphore counts them exactly.
C3_PermitsBounded ==
    \A s \in 1..Len(sems) :
        /\ Held(s) <= sems[s].limit
        /\ sems[s].permits = sems[s].limit - Held(s)

\* a semaphore installed by set_dns_concurrency_limit whose permits are all
\* held while a further task of a batch using it waits
C3_Witness ==
    \E s \in 2..Len(sems) :
        /\ Held(s) = sems[s].limit
        /\ \E b \in 1..MaxBatches : \E i \in Rows(b) :
              /\ Running(b)
              /\ batch[b].sem = s
              /\ ~batch[b].rows[i].is_null
              /\ Task(b, i).pc = "start"

\* C4 (as claimed): every resolver query in flight, of a batch task or of a
\* corey bind, is covered by a permit held for it.
C4_QueryHoldsPermit ==
    /\ \A b \in 1..MaxBatches : \A i \in Rows(b) :
          Task(b, i).pc = "query" => Task(b, i).permit # 0
    /\ \A c \in 1..MaxBinds :
          bind[c].pc = "query" => bind[c].permit # 0

\* C5 (as claimed): all lookups of one batch use the same resolver handle.
C5_OneHandlePerBatch ==
    \A b \in 1..MaxBatches : \A i \in Rows(b) : \A j \in Rows(b) :
        (Task(b, i).handle # 0 /\ Task(b, j).handle # 0)
            => Task(b, i).handle = Task(b, j).handle

\* C6: every permit a task holds comes from the semaphore its batch loaded
\* when it started, which was the published one at that moment; the batch
\* keeps that semaphore, and a step that publishes a new semaphore changes
\* no batch, no task and no semaphore that existed before.
C6_Step ==
    /\ \A b \in 1..MaxBatches :
          /\ (~Started(b) /\ batch'[b].pc # "idle")
                => batch'[b].sem = concurrency_semaphore
          /\ Started(b) => batch'[b].sem = batch[b].sem
          /\ \A i \in 1..Len(batch'[b].tasks) :
                batch'[b].tasks[i].permit \in {0, batch'[b].sem}
    /\ concurrency_semaphore' # concurrency_semaphore
          => /\ batch' = batch
             /\ \A s \in 1..Len(sems) : sems'[s] = sems[s]

C6_SnapshotSemaphore == [][C6_Step]_vars

\* two batches hold permits of different semaphores at the same time: one
\* started before a new limit was published, one after
C6_Witness ==
    \E b1 \in 1..MaxBatches, b2 \in 1..MaxBatches :
        /\ Running(b1) /\ Running(b2)
        /\ batch[b1].sem # concurrency_semaphore
        /\ batch[b2].sem = concurrency_semaphore
        /\ Held(batch[b1].sem) > 0
        /\ Held(batch[b2].sem) > 0

\* the configuration of the last set_dns_config that published a resolver
ConfigHandles == {h \in 1..Len(handles) : handles[h].by = "config"}
LastPreset ==
    IF ConfigHandles = {} THEN "default"
    ELSE handles[CHOOSE h \in ConfigHandles : \A k \in ConfigHandles : k <= h].config

\* C7 (as claimed): a lookup that is issued after a set_dns_config has
\* published uses a handle with the configuration of the last published
\* preset.
C7_Step ==
    \A b \in 1..MaxBatches : \A i \in Rows(b) :
        (Task(b, i).pc = "permit" /\ batch'[b].tasks[i].pc = "query")
            => handles[batch'[b].tasks[i].handle].config = LastPreset

C7_NoStalePreset == [][C7_Step]_vars

\* C8: a lookup in flight keeps the handle it loaded until it completes,
\* completes with the outcome that handle gives, and a step that publishes
\* another resolver changes no batch and no task.
C8_Step ==
    /\ \A b \in 1..MaxBatches : \A i \in Rows(b) :
          Task(b, i).pc = "query" =>
              /\ batch'[b].tasks[i].handle = Task(b, i).handle
              /\ \/ batch'[b].tasks[i] = Task(b, i)
                 \/ /\ batch'[b].tasks[i].pc = "done"
                    /\ batch'[b].tasks[i].result = OutcomeOf(b, i)
    /\ resolver' # resolver => batch' = batch

C8_InFlightKeepsHandle == [][C8_Step]_vars

\* a lookup is in flight on a handle that is no longer the published one,
\* and the published one would give another outcome
C8_Witness ==
    \E b \in 1..MaxBatches : \E i \in Rows(b) :
        /\ Task(b, i).pc = "query"
        /\ Task(b, i).handle # resolver
        /\ OutcomeOf(b, i) # None
        /\ OutcomeOf(b, i) #
              TaskResult(batch[b].kind,
                         Unwrap(TaskQuery(batch[b].kind, batch[b].cols, batch[b].rows[i])),
                         Answer(handles[resolver],
                                Unwrap(TaskQuery(batch[b].kind, batch[b].cols, batch[b].rows[i]))))

\* the row an administrative call returned last
LastOutput(a) == admin'[a].output[Len(admin'[a].output)]

\* C9: a set_dns_concurrency_limit row with n <= 0 returns a status text
\* that contains "must be greater than 0" and changes none of the three
\* fields of the shared state; the semaphore stays the published one.
C9_Step ==
    \A a \in 1..MaxAdmins :
        (/\ AtRow(a, "limit")
         /\ Arg(a) # None
         /\ Unwrap(Arg(a)) <= 0
         /\ admin'[a] # admin[a])
            => /\ Len(admin'[a].output) = Len(admin[a].output) + 1
               /\ IsSome(LastOutput(a))
               /\ Contains(Unwrap(LastOutput(a)), <<MustBeGreater>>)
               /\ UNCHANGED <<resolver, concurrency_semaphore, cache_size, handles, sems>>

C9_LimitRejected == [][C9_Step]_vars

\* after a rejected set_dns_concurrency_limit(n <= 0) has returned, a batch
\* task holds a permit of the still published initial semaphore
C9_Witness ==
    \E a \in 1..MaxAdmins :
        /\ admin[a].pc = "done"
        /\ admin[a].op = "limit"
        /\ admin[a].rows # <<>>
        /\ admin[a].rows[1] # None
        /\ Unwrap(admin[a].rows[1]) <= 0
        /\ IsSome(admin[a].output[1])
        /\ concurrency_semaphore = 1
        /\ Held(1) > 0

\* C10: a set_dns_cache_size row with n <= 0 returns a status text and
\* changes neither the stored preference nor the published resolver; the
\* call never gets past the rejection.
C10_Step ==
    \A a \in 1..MaxAdmins :
        (/\ AtRow(a, "cache")
         /\ Arg(a) # None
         /\ Unwrap(Arg(a)) <= 0
         /\ admin'[a] # admin[a])
            => /\ Len(admin'[a].output) = Len(admin[a].output) + 1
               /\ IsSome(LastOutput(a))
               /\ Contains(Unwrap(LastOutput(a)), <<MustBeGreater>>)
               /\ admin'[a].pc \in {"row", "done"}
               /\ UNCHANGED <<resolver, concurrency_semaphore, cache_size, handles, sems>>

C10_CacheSizeRejected == [][C10_Step]_vars

\* a rejected set_dns_cache_size(n <= 0) has returned next to an accepted
\* one, and the preference is the accepted one
C10_Witness ==
    \E a \in 1..MaxAdmins, a2 \in 1..MaxAdmins :
        /\ admin[a].pc = "done"
        /\ admin[a].op = "cache"
        /\ admin[a].rows # <<>>
        /\ admin[a].rows[1] # None
        /\ Unwrap(admin[a].rows[1]) <= 0
        /\ IsSome(admin[a].output[1])
        /\ admin[a2].pc = "done"
        /\ admin[a2].op = "cache"
        /\ admin[a2].rows = <<Some(8)>>
        /\ cache_size = 8

\* the preset names set_dns_config accepts
SupportedPresets == {<<"d", "e", "f", "a", "u", "l", "t">>, <<"g", "o", "o", "g", "l", "e">>,
                     <<"c", "l", "o", "u", "d", "f", "l", "a", "r", "e">>,
                     <<"q", "u", "a", "d", "9">>}

\* C11: a set_dns_config row whose text, trimmed and lower-cased, is not a
\* supported preset returns a status text that names the text and is not
\* the success message, changes nothing of the shared state, and the call
\* goes on to its next row; a finished call has one output row per input
\* row.
C11_Step ==
    \A a \in 1..MaxAdmins :
        /\ (/\ AtRow(a, "config")
            /\ Arg(a) # None
            /\ ToLowercase(Trim(Unwrap(Arg(a)))) \notin SupportedPresets
            /\ admin'[a] # admin[a])
              => /\ Len(admin'[a].output) = Len(admin[a].output) + 1
                 /\ IsSome(LastOutput(a))
                 /\ Contains(Unwrap(LastOutput(a)), <<"Unknown preset '">>)
                 /\ Contains(Unwrap(LastOutput(a)), ToLowercase(Trim(Unwrap(Arg(a)))))
                 /\ admin'[a].i = admin[a].i + 1
                 /\ admin'[a].pc = IF admin[a].i < Len(admin[a].rows) THEN "row" ELSE "done"
                 /\ UNCHANGED <<resolver, concurrency_semaphore, cache_size, handles, sems>>
        /\ (admin'[a].op = "config" /\ admin'[a].pc = "done")
              => Len(admin'[a].output) = Len(admin'[a].rows)

C11_UnknownPreset == [][C11_Step]_vars

\* a finished set_dns_config call whose first row was an unknown preset and
\* whose second row changed the configuration to google
C11_Witness ==
    /\ admin[1].pc = "done"
    /\ admin[1].op = "config"
    /\ Len(admin[1].rows) = 2
    /\ admin[1].rows[1] = Some(NoSuch)
    /\ Contains(Unwrap(admin[1].output[1]), <<"Unknown preset '">>)
    /\ admin[1].rows[2] = Some(Google)
    /\ IsSome(admin[1].output[2])
    /\ handles[resolver].config = "google"

\* the lookup of a non-null row fails under handle h: the input is rejected
\* before the resolver is called (invalid IPv4 text, unsupported record
\* type), the resolver errors, or the answer has no record that counts
RowFails(kind, cols, row, h) ==
    /\ ~row.is_null
    /\ LET query == TaskQuery(kind, cols, row)
       IN  \/ query = None
           \/ LET answer == Answer(h, Unwrap(query))
              IN  \/ ~answer.ok
                  \/ answer.val = <<>>
                  \/ Unwrap(query).q = "ip" /\ Ipv4Texts(answer.val) = <<>>

\* the output a batch call over `rows` gives when every lookup uses handle h
BatchOutput(kind, cols, rows, h) ==
    LET result(k) ==
            IF rows[k].is_null \/ TaskQuery(kind, cols, rows[k]) = None THEN None
            ELSE TaskResult(kind, Unwrap(TaskQuery(kind, cols, rows[k])),
                            Answer(h, Unwrap(TaskQuery(kind, cols, rows[k]))))
        results == [k \in 1..Len(rows) |-> TaskValue(kind, k, result(k))]
    IN  IF kind = "lookup_all" THEN WriteLists(Len(rows), results)
        ELSE WriteIndexed(Len(rows), results)

RemoveAt(seq, i) == SubSeq(seq, 1, i - 1) \o SubSeq(seq, i + 1, Len(seq))

\* C12: a batch call whose tasks are all done returns; in the returned
\* batch a row whose lookup fails is Null, and every other row is what the
\* same call gives for it when the failing row is left out of the input.
C12_FailureIsolated ==
    \A b \in 1..MaxBatches :
        /\ (Running(b) /\ \A i \in Rows(b) : Task(b, i).pc = "done") => ENABLED Join(b)
        /\ Done(b) =>
              \A i \in Rows(b) :
                  RowFails(batch[b].kind, batch[b].cols, batch[b].rows[i], handles[resolver]) =>
                      /\ batch[b].output[i] = None
                      /\ LET without == BatchOutput(batch[b].kind, batch[b].cols,
                                                    RemoveAt(batch[b].rows, i), handles[resolver])
                         IN  \A j \in Rows(b) \ {i} :
                                 batch[b].output[j] = without[IF j > i THEN j - 1 ELSE j]

\* a returned dns_lookup_all call whose first row failed with a resolver
\* error or an empty answer and whose second row is a list
C12_Witness ==
    \E b \in 1..MaxBatches :
        /\ Done(b)
        /\ batch[b].kind = "lookup_all"
        /\ Len(batch[b].rows) = 2
        /\ batch[b].rows[1].text \in {HostN, HostE}
        /\ Task(b, 1).queries = 1
        /\ batch[b].output[1] = None
        /\ batch[b].output[2] # None

\* C13 (as claimed): in the two-argument forms of dns_lookup and
\* dns_lookup_all a row with a hostname and a null record type never
\* issues a resolver query and its output row is Null.
C13_NullRecordTypeIsNull ==
    \A b \in 1..MaxBatches :
        (Started(b) /\ batch[b].kind \in {"lookup", "lookup_all"} /\ batch[b].cols = 2) =>
            \A i \in Rows(b) :
                (~batch[b].rows[i].is_null /\ batch[b].rows[i].rt = None) =>
                    /\ Task(b, i).queries = 0
                    /\ Done(b) => batch[b].output[i] = None

\* call a is a set_dns_cache_size(n) that was accepted and has returned
CacheSizeSet(a, n) ==
    /\ admin[a].op = "cache"
    /\ admin[a].pc = "done"
    /\ admin[a].rows = <<Some(n)>>
    /\ n > 0

\* C14: when set_dns_cache_size(n) has succeeded and only set_dns_config
\* calls have been made since, in whatever state of progress, the published
\* resolver has cache capacity n and the stored preference is n.
C14_PresetKeepsCacheSize ==
    \A a \in 1..MaxAdmins : \A n \in {8, 16} :
        (CacheSizeSet(a, n) /\ \A a2 \in (a + 1)..MaxAdmins : admin[a2].op \in {"none", "config"})
            => /\ handles[resolver].cache_size = n
               /\ cache_size = n

\* set_dns_cache_size(8) has returned, a later set_dns_config call has
\* published a resolver, and that resolver has capacity 8
C14_Witness ==
    \E a \in 1..MaxAdmins : \E a2 \in (a + 1)..MaxAdmins :
        /\ CacheSizeSet(a, 8)
        /\ admin[a2].op = "config"
        /\ admin[a2].pc = "done"
        /\ handles[resolver].by = "config"
        /\ handles[resolver].config # "default"
        /\ handles[resolver].cache_size = 8

\* C15: the step in which an accepted set_dns_cache_size(n) publishes its
\* resolver gives a handle with the configuration of the last successful
\* set_dns_config and capacity n, with n the stored preference; no step of
\* a set_dns_cache_size call touches the semaphore.
C15_Step ==
    \A a \in 1..MaxAdmins :
        /\ (admin[a].pc = "cs_store" /\ admin'[a].pc # "cs_store")
              => /\ handles'[resolver'].config = LastPreset
                 /\ handles'[resolver'].cache_size = Unwrap(Arg(a))
                 /\ cache_size' = Unwrap(Arg(a))
                 /\ resolver' # resolver
        /\ (admin[a].op = "cache" /\ admin'[a] # admin[a])
              => UNCHANGED <<concurrency_semaphore, sems>>

C15_CacheSizeKeepsPreset == [][C15_Step]_vars

\* set_dns_config has published a preset, a later set_dns_cache_size(8) has
\* returned, and the published resolver is the one it built
C15_Witness ==
    \E a \in 1..MaxAdmins : \E a2 \in (a + 1)..MaxAdmins :
        /\ admin[a].op = "config"
        /\ admin[a].pc = "done"
        /\ LastPreset \in {"google", "quad9"}
        /\ CacheSizeSet(a2, 8)
        /\ handles[resolver].by = "cache"
        /\ handles[resolver].config = LastPreset
        /\ handles[resolver].cache_size = 8
        /\ cache_size = 8

\* the records of an answer that count for a query, in answer order: the
\* IPv4 addresses as text for an address query, every record otherwise
IsV4(ip) == ip.v4
Matching(query, answer) ==
    IF query.q = "ip"
    THEN LET v4s == SelectSeq(answer.val, IsV4)
         IN  [k \in 1..Len(v4s) |-> Ipv4ToString(v4s[k].octets)]
    ELSE answer.val

\* C16: in a returned dns_lookup_all call no output row is an empty list;
\* the row of a hostname whose answer has no matching record is Null, and
\* every other answered row is the list of the matching records in the
\* order of the answer.
C16_NoEmptyList ==
    \A b \in 1..MaxBatches :
        (Done(b) /\ batch[b].kind = "lookup_all") =>
            \A i \in Rows(b) :
                /\ batch[b].output[i] # Some(<<>>)
                /\ (Task(b, i).queries = 1) =>
                      LET query == Unwrap(TaskQuery(batch[b].kind, batch[b].cols, batch[b].rows[i]))
                          answer == Answer(handles[Task(b, i).handle], query)
                      IN  answer.ok =>
                              IF Matching(query, answer) = <<>>
                              THEN batch[b].output[i] = None
                              ELSE batch[b].output[i] = Some(Matching(query, answer))

\* a returned dns_lookup_all call: the first hostname has only a non-IPv4
\* address and is Null, the second has two IPv4 addresses after a non-IPv4
\* one and is the list of the two
C16_Witness ==
    \E b \in 1..MaxBatches :
        /\ Done(b)
        /\ batch[b].kind = "lookup_all"
        /\ batch[b].rows = <<Row(HostV), Row(HostH)>>
        /\ Task(b, 1).queries = 1
        /\ batch[b].output[1] = None
        /\ batch[b].output[2] = Some(<< <<"1", "0", ".", "0", ".", "0", ".", "1">>,
                                        <<"1", "0", ".", "0", ".", "0", ".", "2">> >>)

\* a text without its last character when that is '.', unchanged otherwise
StripOneDot(name) ==
    IF name # <<>> /\ name[Len(name)] = "." THEN SubSeq(name, 1, Len(name) - 1) ELSE name

\* C17 (as claimed): in a returned reverse_dns_lookup call, a row whose
\* trimmed text is not an IPv4 address is Null without a resolver query, a
\* row whose answer is an error or empty is Null, and every other row is
\* the first name of the answer with exactly one trailing '.' removed.
C17_FirstNameOneDot ==
    \A b \in 1..MaxBatches :
        (Done(b) /\ batch[b].kind = "reverse") =>
            \A i \in Rows(b) :
                ~batch[b].rows[i].is_null =>
                    IF validate_ipv4(batch[b].rows[i].text) = None
                    THEN batch[b].output[i] = None /\ Task(b, i).queries = 0
                    ELSE LET answer == reverse_lookup(handles[Task(b, i).handle].config,
                                                      Unwrap(validate_ipv4(batch[b].rows[i].text)))
                         IN  IF ~answer.ok \/ answer.val = <<>>
                             THEN batch[b].output[i] = None
                             ELSE batch[b].output[i] = Some(StripOneDot(answer.val[1]))

\* a text between its first and its last character that is not whitespace
Core(t) ==
    LET solid == {k \in 1..Len(t) : t[k] \notin Whitespace}
    IN  IF solid = {} THEN <<>>
        ELSE SubSeq(t, CHOOSE k \in solid : \A m \in solid : k <= m,
                       CHOOSE k \in solid : \A m \in solid : m <= k)

\* two characters are the same letter in either case, or the same character
SameLetter(c, d) ==
    \/ c = d
    \/ \E k \in 1..26 : {c, d} = {LowerLetters[k], UpperLetters[k]}

EqIgnoreCase(t, u) ==
    /\ Len(t) = Len(u)
    /\ \A k \in 1..Len(t) : SameLetter(t[k], u[k])

\* C18: parse_record_type succeeds on a text exactly when the text without
\* its surrounding whitespace equals a supported record type up to case,
\* and then returns that type; otherwise its message contains the text as
\* given.  The task of the row queries the resolver for the parsed type,
\* or ends without a query.
C18_ParseRecordType ==
    \A b \in 1..MaxBatches :
        (Started(b) /\ batch[b].cols = 2) =>
            \A i \in Rows(b) :
                IsSome(batch[b].rows[i].rt) =>
                    LET t == Unwrap(batch[b].rows[i].rt)
                        parsed == parse_record_type(t)
                    IN  /\ parsed.ok <=> \E k \in RecordKinds : EqIgnoreCase(Core(t), k)
                        /\ parsed.ok => /\ parsed.kind \in RecordKinds
                                        /\ EqIgnoreCase(Core(t), parsed.kind)
                        /\ ~parsed.ok => Contains(parsed.msg, t)
                        /\ Task(b, i).pc \in {"query", "done"} =>
                              Task(b, i).queries = (IF parsed.ok THEN 1 ELSE 0)

\* the task of a row with record type " mX " has queried the resolver
C18_Witness ==
    \E b \in 1..MaxBatches :
        /\ Done(b)
        /\ batch[b].cols = 2
        /\ batch[b].rows = <<Row2(HostH, <<" ", "m", "X", " ">>)>>
        /\ Task(b, 1).queries = 1
        /\ batch[b].output[1] # None

\* C19 (as claimed): the only runtime and the only resolver state ever
\* created are those of GLOBAL_DNS_STATE, created once on first use: no
\* runtime exists before the first use, exactly one after it, and no
\* resolver of another state exists.
C19_OneSharedState ==
    /\ runtimes = (IF g_init THEN 1 ELSE 0)
    /\ \A h \in 1..Len(handles) : handles[h].by # "corey"

\* C20 (as claimed): every resolver query, of a batch task or of a corey
\* bind, is issued on a handle with the configuration of the last
\* set_dns_config that published (the default one before the first).
C20_Step ==
    /\ C7_Step
    /\ \A c \in 1..MaxBinds :
          (bind[c].pc = "idle" /\ bind'[c].pc = "query")
              => handles'[bind'[c].handle].config = LastPreset

C20_QueriesUsePreset == [][C20_Step]_vars

\* the chunks of a scan one after the other
RECURSIVE Flatten(_)
Flatten(chunks) == IF chunks = <<>> THEN <<>> ELSE Head(chunks) \o Flatten(Tail(chunks))

\* C21: a call of the scan function of a bind with L records and offset o
\* emits the records o+1 .. o+min(L-o, 2048) as one chunk and moves the
\* offset behind them; when o = L it emits nothing and leaves the offset.
\* So the offset never exceeds L and the chunks emitted so far are the
\* first `offset` records in their order, each once.
C21_Step ==
    \A c \in 1..MaxBinds :
        /\ (bind[c].pc \in {"scan", "end"} /\ bind'[c] # bind[c]) =>
              LET L == Len(bind[c].txt_records)
                  o == bind[c].offset
                  n == IF L - o < 2048 THEN L - o ELSE 2048
              IN  IF o = L
                  THEN /\ bind'[c].offset = o
                       /\ bind'[c].emitted = bind[c].emitted
                  ELSE /\ bind'[c].offset = o + n
                       /\ bind'[c].emitted = Append(bind[c].emitted,
                                                    SubSeq(bind[c].txt_records, o + 1, o + n))
        /\ bind'[c].offset <= Len(bind'[c].txt_records)
        /\ Flatten(bind'[c].emitted) = SubSeq(bind'[c].txt_records, 1, bind'[c].offset)
        /\ bind[c].pc = "end" => bind[c].offset = Len(bind[c].txt_records)

C21_ScanChunks == [][C21_Step]_vars

\* a scan of 2051 records has ended after a chunk of 2048 and a chunk of 3
C21_Witness ==
    \E c \in 1..MaxBinds :
        /\ bind[c].pc = "end"
        /\ Len(bind[c].txt_records) = 2051
        /\ Len(bind[c].emitted) = 2
        /\ Len(bind[c].emitted[1]) = 2048
        /\ Len(bind[c].emitted[2]) = 3
        /\ bind[c].offset = 2051

\* C22 (as claimed): a corey bind never fails for want of records: when the
\* TXT answer is empty or the resolver reports an error, the bind succeeds
\* with no records and the scan emits nothing.
C22_NoRecordsIsEmpty ==
    \A c \in 1..MaxBinds :
        (bind[c].pc \notin {"idle", "query"}
            /\ LET answer == lookup(handles[bind[c].handle].config, Trim(bind[c].hostname), TXT)
               IN  ~answer.ok \/ answer.val = <<>>)
            => /\ bind[c].pc # "failed"
               /\ bind[c].txt_records = <<>>
               /\ bind[c].emitted = <<>>

\* C23: a task that has ended holds no permit, whichever way it ended, and
\* when a batch call has returned and no other call is using its semaphore,
\* the semaphore has all the permits it was created with.
C23_PermitsReleased ==
    \A b \in 1..MaxBatches :
        /\ \A i \in Rows(b) : Task(b, i).pc = "done" => Task(b, i).permit = 0
        /\ (Done(b) /\ \A o \in 1..MaxBatches : (Running(o) => batch[o].sem # batch[b].sem))
              => sems[batch[b].sem].permits = sems[batch[b].sem].limit

\* a returned batch call with a task that ended at input validation after
\* taking its permit and a task whose query ended in a failure
C23_Witness ==
    \E b \in 1..MaxBatches :
        /\ Done(b)
        /\ Len(batch[b].rows) = 2
        /\ Task(b, 1).acquired = 1 /\ Task(b, 1).queries = 0
        /\ Task(b, 2).acquired = 1 /\ Task(b, 2).queries = 1
        /\ batch[b].output = <<None, None>>
        /\ sems[batch[b].sem].permits = sems[batch[b].sem].limit

\* C24: as long as a task of a batch call has not ended, whether it is
\* querying or still waiting for a permit, the call has not returned and
\* no row of its output is written.
C24_Barrier ==
    \A b \in 1..MaxBatches :
        (Started(b) /\ \E i \in Rows(b) : Task(b, i).pc # "done")
            => /\ Running(b)
               /\ batch[b].output = <<>>

\* a running batch call with a finished task and a task that waits for a
\* permit of a semaphore that has none left
C24_Witness ==
    \E b \in 1..MaxBatches :
        /\ Running(b)
        /\ batch[b].output = <<>>
        /\ sems[batch[b].sem].permits = 0
        /\ \E i \in Rows(b) : Task(b, i).pc = "done" /\ Task(b, i).result # None
        /\ \E i \in Rows(b) : Task(b, i).pc = "start"

\* C25: under fair scheduling, whenever a batch call is running a moment
\* comes at which every batch call that has started has returned, each of
\* its non-null rows having acquired a permit and ended.
C25_BatchesComplete ==
    (\E b \in 1..MaxBatches : Running(b)) ~>
        (\A b \in 1..MaxBatches :
            Started(b) =>
                /\ Done(b)
                /\ \A i \in Rows(b) :
                      ~batch[b].rows[i].is_null
                          => Task(b, i).acquired = 1 /\ Task(b, i).pc = "done")

\* a returned batch call of more rows than the limit of its semaphore,
\* started after the limit was replaced, next to another call
C25_Witness ==
    \E b \in 1..MaxBatches :
        /\ Done(b)
        /\ batch[b].sem # 1
        /\ Len(batch[b].rows) > sems[batch[b].sem].limit
        /\ \A i \in Rows(b) : Task(b, i).acquired = 1
        /\ \E o \in 1..MaxBatches : o # b /\ Started(o)

\* the position of the first IPv4 address of an answer set, 0 if none
FirstV4(ips) ==
    IF \E k \in 1..Len(ips) : ips[k].v4
    THEN CHOOSE k \in 1..Len(ips) : ips[k].v4 /\ \A m \in 1..(k - 1) : ~ips[m].v4
    ELSE 0

\* C26: in a returned dns_lookup call, a row without record type is the
\* first IPv4 address of the answer in answer order, or Null when the
\* resolver fails or the answer has no IPv4 address; a row with a supported
\* record type is the text of the first record of the answer, or Null when
\* the resolver fails or the answer is empty; a row with an unsupported
\* record type is Null and its task never called the resolver.
C26_SingleLookup ==
    \A b \in 1..MaxBatches :
        (Done(b) /\ batch[b].kind = "lookup") =>
            \A i \in Rows(b) :
                LET row == batch[b].rows[i]
                    config == handles[Task(b, i).handle].config
                IN  IF row.is_null THEN TRUE
                    ELSE IF batch[b].cols = 1
                    THEN LET answer == lookup_ip(config, Trim(row.text))
                         IN  /\ Task(b, i).queries = 1
                             /\ batch[b].output[i] =
                                   IF answer.ok /\ FirstV4(answer.val) > 0
                                   THEN Some(Ipv4ToString(answer.val[FirstV4(answer.val)].octets))
                                   ELSE None
                    ELSE IF row.rt = None THEN TRUE
                    ELSE LET kind == ToUppercase(Trim(Unwrap(row.rt)))
                         IN  IF kind \notin RecordKinds
                             THEN /\ Task(b, i).queries = 0
                                  /\ batch[b].output[i] = None
                             ELSE LET answer == lookup(config, Trim(row.text), kind)
                                  IN  /\ Task(b, i).queries = 1
                                      /\ batch[b].output[i] =
                                            IF answer.ok /\ Len(answer.val) > 0
                                            THEN Some(answer.val[1])
                                            ELSE None

\* a returned dns_lookup call whose first row is the IPv4 address that
\* follows an IPv6 address in the answer and whose second row has no IPv4
\* address at all
C26_Witness ==
    \E b \in 1..MaxBatches :
        /\ Done(b)
        /\ batch[b].kind = "lookup"
        /\ batch[b].cols = 1
        /\ Len(batch[b].rows) = 2
        /\ batch[b].rows[1].text = HostH
        /\ batch[b].rows[2].text = HostV
        /\ batch[b].output = <<Some(<<"1", "0", ".", "0", ".", "0", ".", "1">>), None>>

\* a non-null row passes input validation: its IP address parses
\* (reverse_dns_lookup) or its record type, if any, is a supported one
PassesValidation(kind, cols, row) ==
    IF kind = "reverse" THEN validate_ipv4(row.text) # None
    ELSE IF cols = 1 \/ row.rt = None THEN TRUE
    ELSE ToUppercase(Trim(Unwrap(row.rt))) \in RecordKinds

\* C27: a task takes at most one permit and issues at most one query, and
\* in a returned batch call every non-null row has taken its own permit and
\* every non-null row that passes validation has issued its own query,
\* rows of equal payload included; the other rows have issued none.
C27_NoCoalescing ==
    \A b \in 1..MaxBatches : \A i \in Rows(b) :
        /\ Task(b, i).acquired <= 1
        /\ Task(b, i).queries <= Task(b, i).acquired
        /\ Done(b) =>
              IF batch[b].rows[i].is_null
              THEN Task(b, i).acquired = 0 /\ Task(b, i).queries = 0
              ELSE /\ Task(b, i).acquired = 1
                   /\ Task(b, i).queries =
                         IF PassesValidation(batch[b].kind, batch[b].cols, batch[b].rows[i])
                         THEN 1 ELSE 0

\* a returned batch call of two rows of the same valid payload, each with
\* its own permit and its own query
C27_Witness ==
    \E b \in 1..MaxBatches :
        /\ Done(b)
        /\ Len(batch[b].rows) = 2
        /\ batch[b].rows[1] = batch[b].rows[2]
        /\ ~batch[b].rows[1].is_null
        /\ \A i \in Rows(b) : Task(b, i).acquired = 1 /\ Task(b, i).queries = 1
        /\ batch[b].output[1] # None
        /\ batch[b].output[2] = batch[b].output[1]

\* the permits held from all semaphores together
TotalHeld ==
    Cardinality({<<b, i>> \in (1..MaxBatches) \X (1..MaxRows) :
                    Started(b) /\ i \in Rows(b) /\ Task(b, i).permit # 0})

\* a semaphore is in use while it is published or a running batch holds it
InUse(s) == s = concurrency_semaphore \/ \E b \in 1..MaxBatches : Running(b) /\ batch[b].sem = s

RECURSIVE LimitsInUse(_)
LimitsInUse(n) ==
    IF n = 0 THEN 0
    ELSE (IF InUse(n) THEN sems[n].limit ELSE 0) + LimitsInUse(n - 1)

\* C28: the permits held from all semaphores together never exceed the sum
\* of the limits of the semaphores in use, and a semaphore nobody holds a
\* permit of has its full pool, whatever is held from the others.
C28_HeldWithinPools ==
    /\ TotalHeld <= LimitsInUse(Len(sems))
    /\ \A s \in 1..Len(sems) : Held(s) = 0 => sems[s].permits = sems[s].limit

\* permits are held from a replaced semaphore and from the published one,
\* more in total than the limit of either
C28_Witness ==
    \E old \in 1..Len(sems) :
        /\ old # concurrency_semaphore
        /\ Held(old) > 0
        /\ Held(concurrency_semaphore) > 0
        /\ TotalHeld > sems[old].limit
        /\ TotalHeld > sems[concurrency_semaphore].limit

\* no administrative call is in progress
AdminQuiet == \A a \in 1..MaxAdmins : admin[a].pc \in {"idle", "done"}

\* C29 (as claimed): whenever no administrative call is in progress, the
\* published resolver handle has the stored cache size, after any
\* interleaving of set_dns_cache_size and set_dns_config calls.
C29_CacheSizeQuiescent ==
    AdminQuiet => handles[resolver].cache_size = cache_size

\* C30 (as claimed): when one set_dns_config call of a supported preset and
\* concurrent set_dns_cache_size calls have all returned, and no other
\* set_dns_config call was made, the published resolver handle has the
\* configuration of that preset.
C30_PresetNotLost ==
    \A a \in 1..MaxAdmins :
        (/\ AdminQuiet
         /\ admin[a].pc = "done"
         /\ admin[a].op = "config"
         /\ Len(admin[a].rows) = 1
         /\ IsSome(admin[a].rows[1])
         /\ \A o \in (1..MaxAdmins) \ {a} : admin[o].pc = "done" /\ admin[o].op = "cache")
            => Some(handles[resolver].config)
                  = PresetConfig(ToLowercase(Trim(Unwrap(admin[a].rows[1]))))

\* the three fields each hold one valid value
FieldsValid ==
    /\ resolver \in 1..Len(handles)
    /\ concurrency_semaphore \in 1..Len(sems)
    /\ sems[concurrency_semaphore].limit >= 1
    /\ cache_size >= 1
    /\ (\A a \in 1..MaxAdmins : admin[a].pc = "idle")
          => /\ resolver = 1
             /\ sems[concurrency_semaphore].limit = 50
             /\ cache_size = 4096

\* a null argument row returns Null and changes none of the three fields
NullRowStep ==
    \A a \in 1..MaxAdmins :
        (admin[a].pc = "row" /\ Arg(a) = None /\ admin'[a] # admin[a])
            => /\ admin'[a].output = Append(admin[a].output, None)
               /\ UNCHANGED <<resolver, concurrency_semaphore, cache_size, handles, sems>>

\* C31: in every reachable state a resolver handle is published, the
\* published semaphore was created with a limit of at least 1 (50 before
\* any administrative call) and the stored cache size is at least 1 (4096
\* before any administrative call), whatever the arguments of the
\* administrative calls; a null argument row changes no field.
C31_FieldsValid == []FieldsValid /\ [][NullRowStep]_vars

\* a call with a null row and a call with a positive argument that the cast
\* turns into zero have both returned, the first with Null and the second
\* with a failure text, and the limit and cache size are the initial ones
C31_Witness ==
    \E a \in 1..MaxAdmins, o \in 1..MaxAdmins :
        /\ admin[a].pc = "done"
        /\ admin[a].rows = <<None>>
        /\ admin[a].output = <<None>>
        /\ admin[o].pc = "done"
        /\ admin[o].op \in {"limit", "cache"}
        /\ admin[o].rows = <<Some(2 ^ UsizeBits)>>
        /\ IsSome(admin[o].output[1])
        /\ Contains(Unwrap(admin[o].output[1]), <<MustBeGreater>>)
        /\ sems[concurrency_semaphore].limit = 50
        /\ cache_size = 4096

====
